---- MODULE Spec2Model ----
(***************************************************************************)
(* A model of extract_zeiss_volumes.py: the shape resolver, the raw .img   *)
(* decoder, the output path mapper, the per-file conversion process_one    *)
(* and the batch driver main.                                              *)
(*                                                                         *)
(* Text is modelled as a sequence of one-character strings, a path as the  *)
(* sequence of its parts (pathlib's Path.parts), a raw file as a buffer    *)
(* [size, pat] whose byte at offset o is pat[o % Len(pat)], and the        *)
(* output tree as a function from the existing output directories to the   *)
(* contents of their five artifact files.                                  *)
(***************************************************************************)
EXTENDS Integers, Sequences, FiniteSets, TLC

\* an absent optional value; a present one is a non-empty tuple
None == <<>>

(***************************************************************************)
(* Text and paths                                                          *)
(***************************************************************************)
Digits == {"0", "1", "2", "3"}
Letters == {"a", "c", "d", "e", "g", "i", "l", "m", "o", "p", "q", "r", "s", "t", "u", "x",
            "A", "E", "L", "V"}
\* re's \w: letters, digits and the underscore
WordChars == Letters \cup Digits \cup {"_"}
OtherChars == {" ", "#", "-", ".", "/"}
Chars == WordChars \cup OtherChars

\* ord(c) for the characters of the model (str comparison is by code point)
Ord(c) ==
    CASE c = " " -> 32 [] c = "#" -> 35 [] c = "-" -> 45 [] c = "." -> 46
      [] c = "/" -> 47 [] c = "0" -> 48 [] c = "1" -> 49 [] c = "2" -> 50
      [] c = "3" -> 51 [] c = "A" -> 65 [] c = "E" -> 69 [] c = "L" -> 76
      [] c = "V" -> 86 [] c = "_" -> 95
      [] c = "a" -> 97 [] c = "c" -> 99 [] c = "d" -> 100 [] c = "e" -> 101
      [] c = "g" -> 103 [] c = "i" -> 105 [] c = "l" -> 108 [] c = "m" -> 109
      [] c = "o" -> 111 [] c = "p" -> 112 [] c = "q" -> 113 [] c = "r" -> 114
      [] c = "s" -> 115 [] c = "t" -> 116 [] c = "u" -> 117 [] c = "x" -> 120

Min(a, b) == IF a < b THEN a ELSE b

\* s < t for two strings (Python's str.__lt__)
StrLess(s, t) ==
    \E k \in 1..(Min(Len(s), Len(t)) + 1) :
        /\ \A j \in 1..(k - 1) : s[j] = t[j]
        /\ \/ k = Len(s) + 1 /\ k <= Len(t)
           \/ k <= Len(s) /\ k <= Len(t) /\ Ord(s[k]) < Ord(t[k])

\* p < q for two paths: their parts compared as lists of strings
PathLess(p, q) ==
    \E k \in 1..(Min(Len(p), Len(q)) + 1) :
        /\ \A j \in 1..(k - 1) : p[j] = q[j]
        /\ \/ k = Len(p) + 1 /\ k <= Len(q)
           \/ k <= Len(p) /\ k <= Len(q) /\ StrLess(p[k], q[k])

\* sorted(S) for a finite set of strings
RECURSIVE SortedStrs(_)
SortedStrs(S) ==
    IF S = {} THEN <<>>
    ELSE LET m == CHOOSE x \in S : \A y \in S \ {x} : StrLess(x, y)
         IN <<m>> \o SortedStrs(S \ {m})

\* sorted(S) for a finite set of paths
RECURSIVE SortedPaths(_)
SortedPaths(S) ==
    IF S = {} THEN <<>>
    ELSE LET m == CHOOSE x \in S : \A y \in S \ {x} : PathLess(x, y)
         IN <<m>> \o SortedPaths(S \ {m})

\* needle in hay (Python's substring test)
Contains(hay, needle) ==
    \E i \in 1..(Len(hay) - Len(needle) + 1) :
        SubSeq(hay, i, i + Len(needle) - 1) = needle

EndsWith(s, suffix) ==
    /\ Len(s) >= Len(suffix)
    /\ SubSeq(s, Len(s) - Len(suffix) + 1, Len(s)) = suffix

Root == <<"/">>
IMAGES == <<"i", "m", "a", "g", "e", "s">>
SDOCT_CIRRUS == <<"s", "d", "o", "c", "t", "_", "c", "i", "r", "r", "u", "s">>
MARK_200x200 == <<"2", "0", "0", "x", "2", "0", "0">>
EXT_IMG == <<".", "i", "m", "g">>
V3 == <<"V", "3">>

(***************************************************************************)
(* Shape resolver                                                          *)
(***************************************************************************)
\* the registry of known Zeiss export shapes
known == << <<200, 1024, 200>> >>

Product(shape) == shape[1] * shape[2] * shape[3]

\* infer_shape_from_filesize: the first known triple whose product is n_bytes
infer_shape_from_filesize(n_bytes) ==
    IF \E k \in 1..Len(known) : Product(known[k]) = n_bytes
    THEN known[CHOOSE k \in 1..Len(known) :
                 /\ Product(known[k]) = n_bytes
                 /\ \A j \in 1..(k - 1) : Product(known[j]) # n_bytes]
    ELSE None

FallbackShape == <<200, 1024, 200>>

\* ResolveShape with the inferred shape preferred to the forced one
ResolveShapeForcedLast(n_bytes, force_shape) ==
    LET inferred == infer_shape_from_filesize(n_bytes)
    IN IF inferred # None THEN inferred
       ELSE IF force_shape # None THEN force_shape
       ELSE FallbackShape

\* ResolveShape with the fallback (1, 2, 2)
ResolveShapeSmallFallback(n_bytes, force_shape) ==
    LET inferred == infer_shape_from_filesize(n_bytes)
    IN IF force_shape # None THEN force_shape
       ELSE IF inferred # None THEN inferred
       ELSE <<1, 2, 2>>

\* the shape process_one decodes with
ResolveShape(n_bytes, force_shape) ==
    LET inferred == infer_shape_from_filesize(n_bytes)
    IN IF force_shape # None THEN force_shape
       ELSE IF inferred # None THEN inferred
       ELSE FallbackShape

(***************************************************************************)
(* Volume decoder                                                          *)
(***************************************************************************)
\* the byte at 0-based offset o of a raw buffer
BufAt(buf, o) == buf.pat[(o % Len(buf.pat)) + 1]

\* img_bytes[s:e] as a sequence
Slice(buf, s, e) == [k \in 1..(e - s) |-> BufAt(buf, s + k - 1)]

\* flat.reshape((h, w)), row-major
Reshape(flat, h, w) == [r \in 1..h |-> [c \in 1..w |-> flat[(r - 1) * w + c]]]

\* FlipBoth with the columns left in place: m[::-1, :]
FlipRowsOnly(m, h, w) == [r \in 1..h |-> [c \in 1..w |-> m[h + 1 - r][c]]]

\* m[::-1, ::-1] for an (h, w) array
FlipBoth(m, h, w) == [r \in 1..h |-> [c \in 1..w |-> m[h + 1 - r][w + 1 - c]]]

\* elementwise size_mm / size_pix, each quotient kept as <<mm, pix>>
Spacing(size_mm_zyx, size_pix_zyx) ==
    [k \in 1..3 |-> <<size_mm_zyx[k], size_pix_zyx[k]>>]

Reversed(t) == [k \in 1..Len(t) |-> t[Len(t) + 1 - k]]

SizeMismatch(p, got, expected, shape) ==
    [kind |-> "Size mismatch", detail |-> <<p, got, expected, shape>>]

\* np.stack of an empty list
StackError == [kind |-> "need at least one array to stack", detail |-> <<>>]

\* a failure of the operating system or of a library, raised at step `at`
IOFailure(at) == [kind |-> "IOError", detail |-> <<at>>]

\* one B-scan of read_img's loop: the slice [s, e) of img_bytes as an (h, w)
\* array, rows and columns reversed
bscan(img_bytes, h, w, bscan_nr) ==
    LET hw == h * w
        s == hw * bscan_nr
        e == s + hw
    IN FlipBoth(Reshape(Slice(img_bytes, s, e), h, w), h, w)

\* np.stack(vol, axis=0) of the d B-scans: the (z, y, x) array, frame i of
\* the code at index i + 1
StackFrames(img_bytes, size_pix_zyx) ==
    [i \in 1..size_pix_zyx[1] |->
        bscan(img_bytes, size_pix_zyx[2], size_pix_zyx[3], i - 1)]

\* the samples of a volume read_img returned
VolArray(vol) == StackFrames(vol.base, vol.shape)

\* read_img with the size test weakened to "too short"
read_img_short_only(p, file_bytes, io_ok, size_pix_zyx, size_mm_zyx, has_sitk) ==
    LET img_bytes == file_bytes
        d == size_pix_zyx[1]
        expected == d * size_pix_zyx[2] * size_pix_zyx[3]
        spacing_zyx == Spacing(size_mm_zyx, size_pix_zyx)
        vol == [shape |-> size_pix_zyx, base |-> img_bytes]
    IN IF ~io_ok
       THEN [raised |-> TRUE, exc |-> IOFailure("fromfile")]
       ELSE IF img_bytes.size < expected
       THEN [raised |-> TRUE,
             exc |-> SizeMismatch(p, img_bytes.size, expected, size_pix_zyx)]
       ELSE IF d = 0
       THEN [raised |-> TRUE, exc |-> StackError]
       ELSE [raised |-> FALSE,
             vol |-> vol,
             spacing_zyx |-> spacing_zyx,
             sim |-> IF has_sitk
                     THEN <<[arr |-> vol, spacing |-> Reversed(spacing_zyx)]>>
                     ELSE None]

\* read_img of the file p, whose bytes are file_bytes; np.fromfile fails
\* when io_ok is false.  The result either raises exc, or returns the
\* volume, the spacing and the SimpleITK image.  The volume is handed on as
\* its shape and the buffer it is cut from: its samples are VolArray(vol).
read_img(p, file_bytes, io_ok, size_pix_zyx, size_mm_zyx, has_sitk) ==
    LET img_bytes == file_bytes
        d == size_pix_zyx[1]
        h == size_pix_zyx[2]
        w == size_pix_zyx[3]
        expected == d * h * w
        spacing_zyx == Spacing(size_mm_zyx, size_pix_zyx)
        vol == [shape |-> size_pix_zyx, base |-> img_bytes]
    IN IF ~io_ok
       THEN [raised |-> TRUE, exc |-> IOFailure("fromfile")]
       ELSE IF img_bytes.size # expected
       THEN [raised |-> TRUE,
             exc |-> SizeMismatch(p, img_bytes.size, expected, size_pix_zyx)]
       ELSE IF d = 0
       THEN [raised |-> TRUE, exc |-> StackError]
       ELSE [raised |-> FALSE,
             vol |-> vol,
             spacing_zyx |-> spacing_zyx,
             sim |-> IF has_sitk
                     THEN <<[arr |-> vol, spacing |-> Reversed(spacing_zyx)]>>
                     ELSE None]

(***************************************************************************)
(* Output path mapper                                                      *)
(***************************************************************************)
\* Path.name: the last part, or the empty string for a bare root
PathName(parts) ==
    IF Len(parts) = 0 \/ parts = <<Root>> THEN <<>> ELSE parts[Len(parts)]

\* Path.parent of a relative path
PathParent(parts) ==
    IF Len(parts) = 0 THEN <<>> ELSE SubSeq(parts, 1, Len(parts) - 1)

\* Path(*parts): empty parts add nothing to a path
IsPart(seg) == seg # <<>>
Path(parts) == SelectSeq(parts, IsPart)

\* relative_under_images with parts.index replaced by the index of the last
\* "images" part
relative_under_last_images(img_path) ==
    IF \E i \in 1..Len(img_path) : img_path[i] = IMAGES
    THEN LET idx == CHOOSE i \in 1..Len(img_path) :
                       /\ img_path[i] = IMAGES
                       /\ \A j \in (i + 1)..Len(img_path) : img_path[j] # IMAGES
         IN Path(SubSeq(img_path, idx + 1, Len(img_path)))
    ELSE Path(<<PathName(img_path)>>)

\* relative_under_images: the parts after the first "images" part, or the
\* file name alone when there is none
relative_under_images(img_path) ==
    IF \E i \in 1..Len(img_path) : img_path[i] = IMAGES
    THEN LET idx == CHOOSE i \in 1..Len(img_path) :
                       /\ img_path[i] = IMAGES
                       /\ \A j \in 1..(i - 1) : img_path[j] # IMAGES
         IN Path(SubSeq(img_path, idx + 1, Len(img_path)))
    ELSE Path(<<PathName(img_path)>>)

\* the characters [\w\-.] keeps
IsSafeChar(c) == c \in WordChars \/ c = "-" \/ c = "."

\* safe_leaf_foldername: re.sub(r"[^\w\-.]+", "_", filename)
RECURSIVE safe_leaf_foldername(_)
safe_leaf_foldername(filename) ==
    IF filename = <<>> THEN <<>>
    ELSE IF IsSafeChar(Head(filename))
    THEN <<Head(filename)>> \o safe_leaf_foldername(Tail(filename))
    ELSE LET run == CHOOSE n \in 1..Len(filename) :
                        /\ \A j \in 1..n : ~IsSafeChar(filename[j])
                        /\ n = Len(filename) \/ IsSafeChar(filename[n + 1])
         IN <<"_">> \o safe_leaf_foldername(SubSeq(filename, run + 1, Len(filename)))

\* out_dir of process_one: out_root / rel.parent / leaf_dir
OutDir(img_path, out_root) ==
    LET rel == relative_under_images(img_path)
    IN Path(out_root \o PathParent(rel) \o <<safe_leaf_foldername(PathName(rel))>>)

(***************************************************************************)
(* Conversion of one file                                                  *)
(***************************************************************************)
\* an output directory just created: none of its artifact files exists
EmptyDir == [meta |-> None, vol |-> None, spacing |-> None, nii |-> None, err |-> None]

\* a file holding data, and a file a failed write left truncated
Whole(data) == <<"whole", data>>
Truncated == <<"truncated">>

Exists(f) == f # None

\* the artifact files of directory d in tree t
FilesOf(t, d) == IF d \in DOMAIN t THEN t[d] ELSE EmptyDir

\* out_dir.mkdir(parents=True, exist_ok=True)
Mkdir(t, d) == IF d \in DOMAIN t THEN t ELSE [x \in DOMAIN t \cup {d} |-> FilesOf(t, x)]

\* tree t with artifact `name` of directory d replaced by f
WriteFile(t, d, name, f) == [t EXCEPT ![d] = [@ EXCEPT ![name] = f]]

\* the effect on the target file of a write that fails: the file is left as
\* it was (it could not be opened) or truncated (it was opened, not finished)
FailedWrite(t, d, name, how) ==
    IF how = "truncated" THEN WriteFile(t, d, name, Truncated) ELSE t

\* no fault: every system call of the conversion succeeds
NoFault == [at |-> "none", how |-> "untouched", err |-> "ok"]

\* what a call of process_one did: it raised exc to its caller or returned
\* (status, msg); tree is the output tree it left, read tells whether it
\* called read_img, writes names the artifact files it wrote in full, and
\* fired counts the faults of flt that took effect
Outcome(raised, exc, status, img_path, t, read, writes, fired, out_dir, shape) ==
    [raised |-> raised, exc |-> exc, status |-> status,
     msg |-> [path |-> img_path, detail |-> IF status = "ERR" THEN exc ELSE None],
     tree |-> t, read |-> read, writes |-> writes, fired |-> fired,
     out_dir |-> out_dir, shape |-> shape]

\* TryConvert with meta.json written first, before vol.npy
TryConvertMetaFirst(img_path, file_bytes, shape, default_mm, rel, out_dir, t, has_sitk, flt) ==
    LET r == read_img(img_path, file_bytes, flt.at # "read", shape, default_mm, has_sitk)
        fail(at, tt, done) ==
            [exc |-> <<IOFailure(at)>>, tree |-> FailedWrite(tt, out_dir, at, flt.how),
             writes |-> done, fired |-> 1]
    IN IF r.raised
       THEN [exc |-> <<r.exc>>, tree |-> t, writes |-> {},
             fired |-> IF flt.at = "read" THEN 1 ELSE 0]
       ELSE IF flt.at = "meta" THEN fail("meta", t, {})
       ELSE
       LET with_sitk == has_sitk /\ r.sim # None
           meta == [input_path |-> img_path,
                    output_dir |-> out_dir,
                    relative_under_images |-> rel,
                    shape_zyx |-> shape,
                    spacing_zyx_mm |-> r.spacing_zyx,
                    filesize_bytes |-> file_bytes.size,
                    sitk_written |-> with_sitk]
           t1 == WriteFile(t, out_dir, "meta", Whole(meta))
       IN IF flt.at = "vol" THEN fail("vol", t1, {"meta"})
       ELSE
       LET t2 == WriteFile(t1, out_dir, "vol", Whole(r.vol))
       IN IF flt.at = "spacing" THEN fail("spacing", t2, {"meta", "vol"})
       ELSE
       LET t3 == WriteFile(t2, out_dir, "spacing", Whole(r.spacing_zyx))
       IN IF with_sitk /\ flt.at = "nii" THEN fail("nii", t3, {"meta", "vol", "spacing"})
          ELSE [exc |-> None,
                tree |-> IF with_sitk
                         THEN WriteFile(t3, out_dir, "nii", Whole(r.sim[1]))
                         ELSE t3,
                writes |-> IF with_sitk THEN {"meta", "vol", "spacing", "nii"}
                           ELSE {"meta", "vol", "spacing"},
                fired |-> 0]

\* the try block of process_one: the volume is read and decoded, then
\* vol.npy, spacing_zyx.npy, vol.nii.gz (with SimpleITK) and meta.json are
\* written in this order; the first step that fails ends the block with exc
TryConvert(img_path, file_bytes, shape, default_mm, rel, out_dir, t, has_sitk, flt) ==
    LET r == read_img(img_path, file_bytes, flt.at # "read", shape, default_mm, has_sitk)
        fail(at, tt, done) ==
            [exc |-> <<IOFailure(at)>>, tree |-> FailedWrite(tt, out_dir, at, flt.how),
             writes |-> done, fired |-> 1]
    IN IF r.raised
       THEN [exc |-> <<r.exc>>, tree |-> t, writes |-> {},
             fired |-> IF flt.at = "read" THEN 1 ELSE 0]
       ELSE IF flt.at = "vol" THEN fail("vol", t, {})
       ELSE
       LET t1 == WriteFile(t, out_dir, "vol", Whole(r.vol))
       IN IF flt.at = "spacing" THEN fail("spacing", t1, {"vol"})
       ELSE
       LET t2 == WriteFile(t1, out_dir, "spacing", Whole(r.spacing_zyx))
           with_sitk == has_sitk /\ r.sim # None
       IN IF with_sitk /\ flt.at = "nii" THEN fail("nii", t2, {"vol", "spacing"})
       ELSE
       LET t3 == IF with_sitk THEN WriteFile(t2, out_dir, "nii", Whole(r.sim[1])) ELSE t2
           w3 == IF with_sitk THEN {"vol", "spacing", "nii"} ELSE {"vol", "spacing"}
           sitk_written == with_sitk
           meta == [input_path |-> img_path,
                    output_dir |-> out_dir,
                    relative_under_images |-> rel,
                    shape_zyx |-> shape,
                    spacing_zyx_mm |-> r.spacing_zyx,
                    filesize_bytes |-> file_bytes.size,
                    sitk_written |-> sitk_written]
       IN IF flt.at = "meta" THEN fail("meta", t3, w3)
          ELSE [exc |-> None, tree |-> WriteFile(t3, out_dir, "meta", Whole(meta)),
                writes |-> w3 \cup {"meta"}, fired |-> 0]

\* Decide with the test of overwrite inverted
DecideSkipOnOverwrite(already_done, overwrite, dry_run) ==
    IF already_done /\ overwrite THEN "SKIP"
    ELSE IF dry_run THEN "DRYRUN"
    ELSE "CONVERT"

\* Decide without the test of already_done
DecideNoSkip(already_done, overwrite, dry_run) ==
    IF dry_run THEN "DRYRUN" ELSE "CONVERT"

\* Decide without the test of overwrite
DecideIgnoreOverwrite(already_done, overwrite, dry_run) ==
    IF already_done THEN "SKIP"
    ELSE IF dry_run THEN "DRYRUN"
    ELSE "CONVERT"

\* what process_one does once the output directory exists: it returns SKIP,
\* returns DRYRUN, or goes on to convert
Decide(already_done, overwrite, dry_run) ==
    IF already_done /\ ~overwrite THEN "SKIP"
    ELSE IF dry_run THEN "DRYRUN"
    ELSE "CONVERT"

\* process_one with the test of dry_run moved behind the conversion
process_one_dry_late(img_path, out_root, default_mm, force_shape, dry_run, overwrite, fs, tree, has_sitk, flt) ==
    LET n_bytes == fs[img_path].size
        shape == ResolveShape(n_bytes, force_shape)
        rel == relative_under_images(img_path)
        out_dir == OutDir(img_path, out_root)
        t0 == Mkdir(tree, out_dir)
        f == FilesOf(t0, out_dir)
        already_done == Exists(f.meta) /\ Exists(f.vol) /\ Exists(f.spacing)
        decision == Decide(already_done, overwrite, dry_run)
        try == TryConvert(img_path, fs[img_path], shape, default_mm, rel,
                          out_dir, t0, has_sitk, flt)
    IN IF flt.at = "stat"
       THEN Outcome(TRUE, <<IOFailure("stat")>>, "RAISED", img_path, tree, FALSE, {}, 1,
                    out_dir, None)
       ELSE IF flt.at = "mkdir"
       THEN Outcome(TRUE, <<IOFailure("mkdir")>>, "RAISED", img_path, tree, FALSE, {}, 1,
                    out_dir, shape)
       ELSE IF decision = "SKIP"
       THEN Outcome(FALSE, None, "SKIP", img_path, t0, FALSE, {}, 0, out_dir, shape)
       ELSE IF try.exc = None
       THEN Outcome(FALSE, None, IF decision = "DRYRUN" THEN "DRYRUN" ELSE "OK", img_path, try.tree, TRUE, try.writes, try.fired,
                    out_dir, shape)
       ELSE IF flt.err = "ok"
       THEN Outcome(FALSE, try.exc, "ERR", img_path,
                    WriteFile(try.tree, out_dir, "err", Whole(try.exc[1])),
                    TRUE, try.writes \cup {"err"}, try.fired, out_dir, shape)
       ELSE Outcome(TRUE, <<IOFailure("error.txt"), try.exc[1]>>, "RAISED", img_path,
                    FailedWrite(try.tree, out_dir, "err", flt.err),
                    TRUE, try.writes, try.fired + 1, out_dir, shape)

\* process_one(img_path, out_root, default_mm, force_shape, dry_run,
\* overwrite) on the source files fs and the output tree, with
\* the system calls failing as flt says
process_one(img_path, out_root, default_mm, force_shape, dry_run, overwrite, fs, tree, has_sitk, flt) ==
    LET n_bytes == fs[img_path].size
        shape == ResolveShape(n_bytes, force_shape)
        rel == relative_under_images(img_path)
        out_dir == OutDir(img_path, out_root)
        t0 == Mkdir(tree, out_dir)
        f == FilesOf(t0, out_dir)
        already_done == Exists(f.meta) /\ Exists(f.vol) /\ Exists(f.spacing)
        decision == Decide(already_done, overwrite, dry_run)
        try == TryConvert(img_path, fs[img_path], shape, default_mm, rel,
                          out_dir, t0, has_sitk, flt)
    IN IF flt.at = "stat"
       THEN Outcome(TRUE, <<IOFailure("stat")>>, "RAISED", img_path, tree, FALSE, {}, 1,
                    out_dir, None)
       ELSE IF flt.at = "mkdir"
       THEN Outcome(TRUE, <<IOFailure("mkdir")>>, "RAISED", img_path, tree, FALSE, {}, 1,
                    out_dir, shape)
       ELSE IF decision = "SKIP"
       THEN Outcome(FALSE, None, "SKIP", img_path, t0, FALSE, {}, 0, out_dir, shape)
       ELSE IF decision = "DRYRUN"
       THEN Outcome(FALSE, None, "DRYRUN", img_path, t0, FALSE, {}, 0, out_dir, shape)
       ELSE IF try.exc = None
       THEN Outcome(FALSE, None, "OK", img_path, try.tree, TRUE, try.writes, try.fired,
                    out_dir, shape)
       ELSE IF flt.err = "ok"
       THEN Outcome(FALSE, try.exc, "ERR", img_path,
                    WriteFile(try.tree, out_dir, "err", Whole(try.exc[1])),
                    TRUE, try.writes \cup {"err"}, try.fired, out_dir, shape)
       ELSE Outcome(TRUE, <<IOFailure("error.txt"), try.exc[1]>>, "RAISED", img_path,
                    FailedWrite(try.tree, out_dir, "err", flt.err),
                    TRUE, try.writes, try.fired + 1, out_dir, shape)

(***************************************************************************)
(* The batch driver                                                        *)
(***************************************************************************)
\* bounds of the model
MaxFiles == 3
MaxCap == 2
MaxRuns == 2
MaxFaults == 1

\* --base and --out
Base == <<Root, IMAGES>>
OutRoot == <<Root, <<"o", "u", "t">> >>
\* --version and --pattern, left at their defaults
Version == V3
DefaultMM == <<6, 2, 6>>
ALL == <<"a", "l", "l">>

\* the cube size the registry knows, a 1x2x2 volume, an empty file
CubeBytes == [size |-> 200 * 1024 * 200, pat |-> <<7>>]
TinyBytes == [size |-> 4, pat |-> <<1, 2, 3, 4>>]
NoBytes == [size |-> 0, pat |-> <<0>>]

\* the source files a run can find under Base, with their contents: a cube
\* below a subdirectory of site 1, two files of one patient of site 2 whose
\* names map to one output directory, a file under another version and a
\* file without the "200x200" marker
Universe ==
    Base \o << <<"1">>, <<"p">>, V3, SDOCT_CIRRUS, <<"E">>,
          <<"2", "0", "0", "x", "2", "0", "0", ".", "i", "m", "g">> >>
         :> CubeBytes
    @@ Base \o << <<"2">>, <<"p">>, V3, SDOCT_CIRRUS,
          <<"2", "0", "0", "x", "2", "0", "0", " ", ".", "i", "m", "g">> >>
         :> TinyBytes
    @@ Base \o << <<"2">>, <<"p">>, V3, SDOCT_CIRRUS,
          <<"2", "0", "0", "x", "2", "0", "0", "#", ".", "i", "m", "g">> >>
         :> CubeBytes
    @@ Base \o << <<"2">>, <<"q">>, <<"V", "2">>, SDOCT_CIRRUS,
          <<"2", "0", "0", "x", "2", "0", "0", ".", "i", "m", "g">> >>
         :> TinyBytes
    @@ Base \o << <<"2">>, <<"r">>, V3, SDOCT_CIRRUS,
          <<"a", ".", "i", "m", "g">> >>
         :> NoBytes

\* the values of --force-shape (None: the option is not given)
ForceShapes == {None, <<1, 2, 2>>}
\* the values of --site
SiteArgs == {ALL, <<"3">>}

ArgSets ==
    [site : SiteArgs, max : 0..MaxCap, dry_run : BOOLEAN,
     force_shape : ForceShapes, overwrite : BOOLEAN]

IsPrefix(p, q) == Len(p) <= Len(q) /\ SubSeq(q, 1, Len(p)) = p

\* the directories below directory dir, which exist as far as files lie in them
DirExists(fs, dir) == \E f \in DOMAIN fs : Len(dir) < Len(f) /\ IsPrefix(dir, f)
SubDirs(fs, dir) ==
    {SubSeq(f, 1, Len(dir) + 1) : f \in {g \in DOMAIN fs : Len(dir) + 1 < Len(g) /\ IsPrefix(dir, g)}}

\* str.lower() of the --site values of the model
Lower(str) == [k \in 1..Len(str) |-> IF str[k] = "A" THEN "a" ELSE IF str[k] = "L" THEN "l" ELSE str[k]]

\* cirrus_dir.rglob("*.img") kept when the name contains "200x200"
ImgPaths(fs, cirrus_dir) ==
    {f \in DOMAIN fs : /\ Len(cirrus_dir) < Len(f)
                       /\ IsPrefix(cirrus_dir, f)
                       /\ EndsWith(f[Len(f)], EXT_IMG)
                       /\ Contains(f[Len(f)], MARK_200x200)}

RECURSIVE Flatten(_)
Flatten(seqs) == IF seqs = <<>> THEN <<>> ELSE Head(seqs) \o Flatten(Tail(seqs))

Step(kind, site, patient, path, i, n) ==
    [kind |-> kind, site |-> site, patient |-> patient, path |-> path, i |-> i, n |-> n]

\* the body of main's loop over the patients of a site, for one patient
PatientSteps(fs, site_id, patient_dir) ==
    LET patient_id == patient_dir[Len(patient_dir)]
        vdir == patient_dir \o <<Version>>
        cirrus_dir == vdir \o <<SDOCT_CIRRUS>>
        img_paths == ImgPaths(fs, cirrus_dir)
        sorted == SortedPaths(img_paths)
        n == Cardinality(img_paths)
    IN IF ~DirExists(fs, vdir) \/ ~DirExists(fs, cirrus_dir) \/ img_paths = {}
       THEN <<>>
       ELSE <<Step("group", site_id, patient_id, <<>>, 0, n)>>
            \o [i \in 1..n |-> Step("file", site_id, patient_id, sorted[i], i, n)]
            \o <<Step("summary", site_id, patient_id, <<>>, 0, n)>>

\* the body of main's loop over the sites, for one site
SiteSteps(fs, site_id) ==
    LET site_dir == Base \o <<site_id>>
        patient_dirs == SubDirs(fs, site_dir)
        sorted == SortedPaths(patient_dirs)
    IN IF ~DirExists(fs, site_dir)
       THEN <<Step("warn", site_id, <<>>, <<>>, 0, 0)>>
       ELSE <<Step("site", site_id, <<>>, <<>>, 0, Cardinality(patient_dirs))>>
            \o Flatten([k \in 1..Len(sorted) |-> PatientSteps(fs, site_id, sorted[k])])

\* the sites main iterates over
Sites(fs, site) ==
    IF Lower(site) = ALL
    THEN SortedStrs({d[Len(d)] : d \in SubDirs(fs, Base)})
    ELSE <<site>>

\* the steps of main's nested loops, in order: one per warning, per site
\* header, per patient header, per file and per patient summary
Plan(fs, site) ==
    LET sites == Sites(fs, site)
    IN Flatten([k \in 1..Len(sites) |-> SiteSteps(fs, sites[k])])

VARIABLES
    files,      \* the source files under Base: path -> contents
    HAS_SITK,   \* whether SimpleITK could be imported
    tree,       \* the output tree: output directory -> its artifact files
    faults,     \* the system-call failures injected so far
    runs,       \* the batch runs started so far
    pc,         \* "idle", or where the current run of main is
    args,       \* the parsed command line of the current run
    plan,       \* the steps of main's loops for this run
    pos,        \* the step main is at
    grand,      \* grand_ok, grand_skip, grand_err, grand_total
    group,      \* ok, skip, err of the current patient
    out,        \* the lines printed by the current run
    calls,      \* history: the calls of process_one of the current run
    prev,       \* history: the calls of the run before, when this run repeats it
    same,       \* history: this run repeats the run before with the same command line
    lastFile,   \* history: source file -> outcome of its latest real conversion
    lastDir,    \* history: output directory -> outcome of the latest real conversion into it
    fn,         \* a function called on its own: its name,
    input,      \* its arguments
    result      \* and what it returned

vars == <<files, HAS_SITK, tree, faults, runs, pc, args, plan, pos, grand, group,
          out, calls, prev, same, lastFile, lastDir, fn, input, result>>

unit == <<fn, input, result>>

world == <<files, HAS_SITK>>

Line(tag, data) == [tag |-> tag, data |-> data]

NoArgs == [site |-> ALL, max |-> 0, dry_run |-> FALSE, force_shape |-> None,
           overwrite |-> FALSE]
ZeroGrand == [ok |-> 0, skip |-> 0, err |-> 0, total |-> 0]
ZeroGroup == [ok |-> 0, skip |-> 0, err |-> 0]

Init ==
    /\ \E S \in SUBSET DOMAIN Universe :
          /\ Cardinality(S) <= MaxFiles
          /\ files = [f \in S |-> Universe[f]]
    /\ HAS_SITK \in BOOLEAN
    /\ tree = <<>>
    /\ faults = 0
    /\ runs = 0
    /\ pc = "idle"
    /\ args = NoArgs
    /\ plan = <<>>
    /\ pos = 1
    /\ grand = ZeroGrand
    /\ group = ZeroGroup
    /\ out = <<>>
    /\ calls = <<>>
    /\ prev = <<>>
    /\ same = FALSE
    /\ lastFile = <<>>
    /\ lastDir = <<>>
    /\ fn = "main"
    /\ input = <<>>
    /\ result = <<>>

\* main up to its loops, for the command line a
Begin(a, repeat) ==
    /\ runs < MaxRuns
    /\ runs' = runs + 1
    /\ pc' = "loop"
    /\ args' = a
    /\ plan' = Plan(files, a.site)
    /\ pos' = 1
    /\ grand' = ZeroGrand
    /\ group' = ZeroGroup
    /\ out' = <<>>
    /\ prev' = IF repeat THEN calls ELSE <<>>
    /\ same' = repeat
    /\ calls' = <<>>
    /\ UNCHANGED <<files, HAS_SITK, tree, faults, lastFile, lastDir, unit>>

\* the operator starts the script
Start ==
    /\ pc = "idle"
    /\ \E a \in ArgSets : Begin(a, FALSE)

\* the operator starts the script again with the command line of the run
\* that has just ended
Rerun ==
    /\ pc \in {"done", "crashed"}
    /\ Begin(args, TRUE)

\* the process of a run that has ended is gone
Exit ==
    /\ pc \in {"done", "crashed"}
    /\ pc' = "idle"
    /\ args' = NoArgs
    /\ plan' = <<>>
    /\ pos' = 1
    /\ grand' = ZeroGrand
    /\ group' = ZeroGroup
    /\ out' = <<>>
    /\ calls' = <<>>
    /\ prev' = <<>>
    /\ same' = FALSE
    /\ UNCHANGED <<files, HAS_SITK, tree, faults, runs, lastFile, lastDir, unit>>

AtStep(kind) == pc = "loop" /\ pos <= Len(plan) /\ plan[pos].kind = kind

\* a step of main that only prints
Say(line) ==
    /\ out' = Append(out, line)
    /\ pos' = pos + 1
    /\ UNCHANGED <<files, HAS_SITK, tree, faults, runs, pc, args, plan, grand,
                   calls, prev, same, lastFile, lastDir, unit>>

\* the site directory does not exist: a warning on stderr
WarnSite ==
    /\ AtStep("warn")
    /\ Say(Line("WARN", <<plan[pos].site>>))
    /\ UNCHANGED group

SiteHeader ==
    /\ AtStep("site")
    /\ Say(Line("SITE", <<plan[pos].site, plan[pos].n>>))
    /\ UNCHANGED group

\* PatientHeader with the total of processed files restarted for every
\* patient
PatientHeaderPerPatientTotal ==
    /\ AtStep("group")
    /\ out' = Append(out, Line("FILES", <<plan[pos].site, plan[pos].patient, plan[pos].n>>))
    /\ pos' = pos + 1
    /\ group' = ZeroGroup
    /\ grand' = [grand EXCEPT !.total = 0]
    /\ UNCHANGED <<files, HAS_SITK, tree, faults, runs, pc, args, plan,
                   calls, prev, same, lastFile, lastDir, unit>>

\* a patient with files: the header line, and the patient's counters restart
PatientHeader ==
    /\ AtStep("group")
    /\ Say(Line("FILES", <<plan[pos].site, plan[pos].patient, plan[pos].n>>))
    /\ group' = ZeroGroup

PatientSummary ==
    /\ AtStep("summary")
    /\ Say(Line("SUMMARY", <<plan[pos].site, plan[pos].patient,
                              group.ok, group.skip, group.err>>))
    /\ UNCHANGED group

\* the faults a call of process_one can meet
WriteSteps == {"vol", "spacing", "nii", "meta"}
Faults ==
    {[at |-> a, how |-> "untouched", err |-> "ok"] : a \in {"none", "stat", "mkdir"}}
    \cup {[at |-> a, how |-> "untouched", err |-> e] :
            a \in {"none", "read"}, e \in {"ok", "untouched", "truncated"}}
    \cup {[at |-> a, how |-> h, err |-> e] :
            a \in WriteSteps, h \in {"untouched", "truncated"},
            e \in {"ok", "untouched", "truncated"}}

Declared(flt) ==
    (IF flt.at = "none" THEN 0 ELSE 1) + (IF flt.err = "ok" THEN 0 ELSE 1)

\* Bump with DRYRUN counted as a skip
BumpDryRunAsSkip(rec, status) ==
    IF status = "OK" THEN [rec EXCEPT !.ok = @ + 1]
    ELSE IF status \in {"SKIP", "DRYRUN"} THEN [rec EXCEPT !.skip = @ + 1]
    ELSE IF status = "ERR" THEN [rec EXCEPT !.err = @ + 1]
    ELSE rec

\* main's tally of one outcome (lines 295-303): DRYRUN is counted nowhere
Bump(rec, status) ==
    IF status = "OK" THEN [rec EXCEPT !.ok = @ + 1]
    ELSE IF status = "SKIP" THEN [rec EXCEPT !.skip = @ + 1]
    ELSE IF status = "ERR" THEN [rec EXCEPT !.err = @ + 1]
    ELSE rec

\* the history entry of a call of process_one; last is the outcome of the
\* latest real conversion of the file before this call
Call(r, img_path, before) ==
    [path |-> img_path, out_dir |-> r.out_dir, status |-> r.status, read |-> r.read,
     writes |-> r.writes, shape |-> r.shape, msg |-> r.msg,
     tried |-> IF r.read /\ r.exc # None THEN <<r.exc[Len(r.exc)]>> ELSE None,
     errfile |-> FilesOf(r.tree, r.out_dir).err,
     already_done |-> LET f == FilesOf(before, r.out_dir)
                      IN Exists(f.meta) /\ Exists(f.vol) /\ Exists(f.spacing),
     changed |-> \E d \in DOMAIN r.tree : FilesOf(r.tree, d) # FilesOf(before, d),
     last |-> IF img_path \in DOMAIN lastFile THEN <<lastFile[img_path]>> ELSE None]

Record(last, key, r) ==
    IF r.read THEN [k \in DOMAIN last \cup {key} |-> IF k = key THEN r.status ELSE last[k]]
    ELSE last

\* Capped with > for >=
CappedStrict(max, grand_total) == max # 0 /\ grand_total > max

\* main's test of --max after a file
Capped(max, grand_total) == max # 0 /\ grand_total >= max

\* one iteration of main's loop over the files of a patient
ProcessFile ==
    /\ AtStep("file")
    /\ \E flt \in Faults :
        LET st == plan[pos]
            img_path == st.path
            r == process_one(img_path, OutRoot, DefaultMM, args.force_shape,
                             args.dry_run, args.overwrite, files, tree, HAS_SITK, flt)
            total == grand.total + 1
            processing == Line("processing", <<st.site, st.patient, st.i, st.n,
                                               PathName(img_path)>>)
            capped == Capped(args.max, total)
        IN /\ faults + Declared(flt) <= MaxFaults
           /\ Declared(flt) = r.fired
           /\ faults' = faults + r.fired
           /\ tree' = r.tree
           /\ calls' = Append(calls, Call(r, img_path, tree))
           /\ lastFile' = Record(lastFile, img_path, r)
           /\ lastDir' = Record(lastDir, r.out_dir, r)
           /\ IF r.raised
              THEN /\ pc' = "crashed"
                   /\ grand' = [grand EXCEPT !.total = total]
                   /\ out' = Append(out, processing)
                   /\ UNCHANGED <<group, pos>>
              ELSE /\ grand' = Bump([grand EXCEPT !.total = total], r.status)
                   /\ group' = Bump(group, r.status)
                   /\ IF capped
                      THEN /\ out' = out \o <<processing, Line(r.status, r.msg),
                                                Line("INFO", <<args.max>>),
                                                Line("DONE", <<grand'.ok, grand'.skip,
                                                               grand'.err, grand'.total>>)>>
                           /\ pc' = "done"
                           /\ pos' = pos
                      ELSE /\ out' = out \o <<processing, Line(r.status, r.msg)>>
                           /\ pc' = pc
                           /\ pos' = pos + 1
    /\ UNCHANGED <<files, HAS_SITK, runs, args, plan, prev, same, unit>>

\* the loops are over: the final tally
Finish ==
    /\ pc = "loop"
    /\ pos > Len(plan)
    /\ out' = Append(out, Line("DONE", <<grand.ok, grand.skip, grand.err, grand.total>>))
    /\ pc' = "done"
    /\ UNCHANGED <<files, HAS_SITK, tree, faults, runs, args, plan, pos, grand, group,
                   calls, prev, same, lastFile, lastDir, unit>>

Next ==
    \/ Start
    \/ Rerun
    \/ Exit
    \/ WarnSite
    \/ SiteHeader
    \/ PatientHeader
    \/ ProcessFile
    \/ PatientSummary
    \/ Finish

Spec == Init /\ [][Next]_vars

(***************************************************************************)
(* read_img called on its own, on small shapes and buffers                 *)
(***************************************************************************)
MaxDim == 2

\* a file of n bytes whose byte at offset o is o + 1
Counting(n) == [size |-> n, pat |-> IF n = 0 THEN <<0>> ELSE [k \in 1..n |-> k % 256]]

UnitShapes ==
    {<<d, h, w>> : d \in 0..MaxDim, h \in 1..MaxDim, w \in 1..MaxDim}
    \cup {FallbackShape}
UnitBuffers ==
    {Counting(n) : n \in 0..(MaxDim * MaxDim * MaxDim + 1)}
    \cup {CubeBytes, [size |-> CubeBytes.size + 1, pat |-> <<7>>]}
UnitPaths == {Base \o << <<"x", ".", "i", "m", "g">> >>}

\* the longest path handed to the output path mapper, in parts after the root
MaxParts == 3

\* parts of source paths: the marker, a near miss of it, a site, and a file
\* name with a run of two characters that [\w\-.] does not keep
UnitParts ==
    {IMAGES, <<"i", "m", "a", "g", "e">>, <<"1">>,
     <<"a", " ", "#", "a", ".", "i", "m", "g">>}
\* relative and absolute source paths of up to MaxParts parts
UnitImgPaths ==
    LET rels == UNION {[1..n -> UnitParts] : n \in 0..MaxParts}
    IN rels \cup {<<Root>> \o r : r \in rels}

OutDirInputs == [img_path : UnitImgPaths, out_root : {OutRoot}]

ReadImgInputs ==
    [p : UnitPaths, bytes : UnitBuffers, io_ok : BOOLEAN, shape : UnitShapes,
     has_sitk : BOOLEAN]

UnitInit ==
    /\ files = <<>>
    /\ HAS_SITK = FALSE
    /\ tree = <<>>
    /\ faults = 0
    /\ runs = 0
    /\ pc = "idle"
    /\ args = NoArgs
    /\ plan = <<>>
    /\ pos = 1
    /\ grand = ZeroGrand
    /\ group = ZeroGroup
    /\ out = <<>>
    /\ calls = <<>>
    /\ prev = <<>>
    /\ same = FALSE
    /\ lastFile = <<>>
    /\ lastDir = <<>>
    /\ \/ fn = "read_img" /\ input \in ReadImgInputs
       \/ fn = "out_dir" /\ input \in OutDirInputs
    /\ result = <<>>

CallReadImg ==
    /\ fn = "read_img"
    /\ result = <<>>
    /\ result' = <<read_img(input.p, input.bytes, input.io_ok, input.shape, DefaultMM,
                            input.has_sitk)>>
    /\ UNCHANGED <<files, HAS_SITK, tree, faults, runs, pc, args, plan, pos, grand, group,
                   out, calls, prev, same, lastFile, lastDir, fn, input>>

\* process_one's computation of out_dir, on its own
CallOutDir ==
    /\ fn = "out_dir"
    /\ result = <<>>
    /\ result' = <<OutDir(input.img_path, input.out_root)>>
    /\ UNCHANGED <<files, HAS_SITK, tree, faults, runs, pc, args, plan, pos, grand, group,
                   out, calls, prev, same, lastFile, lastDir, fn, input>>

UnitNext == CallReadImg \/ CallOutDir

UnitSpec == UnitInit /\ [][UnitNext]_vars

(***************************************************************************)
(* Properties                                                              *)
(***************************************************************************)
Returned == fn = "read_img" /\ result # <<>>

\* C9 as stated: for any shape (d,h,w) and any buffer of length L that was
\* read, read_img succeeds iff L = d*h*w, and otherwise raises the size
\* mismatch carrying L, d*h*w and the shape.
C9_SizeInvariantAnyShape ==
    (Returned /\ input.io_ok) =>
        LET r == result[1]
            L == input.bytes.size
            expected == input.shape[1] * input.shape[2] * input.shape[3]
        IN /\ ~r.raised <=> L = expected
           /\ L # expected =>
                /\ r.exc.kind = "Size mismatch"
                /\ r.exc.detail = <<input.p, L, expected, input.shape>>

\* C9, amended: whenever L # d*h*w, read_img raises the size mismatch
\* carrying L, d*h*w and the shape; when L = d*h*w it succeeds for every
\* shape with d >= 1, and with d = 0 (so L = 0) it fails in the stacking of
\* an empty list of frames.
C9_SizeInvariantPositiveDepth ==
    (Returned /\ input.io_ok) =>
        LET r == result[1]
            L == input.bytes.size
            expected == input.shape[1] * input.shape[2] * input.shape[3]
        IN /\ L # expected =>
                /\ r.raised
                /\ r.exc.kind = "Size mismatch"
                /\ r.exc.detail = <<input.p, L, expected, input.shape>>
           /\ (L = expected /\ input.shape[1] >= 1) =>
                /\ ~r.raised
                /\ r.vol.shape = input.shape
           /\ (L = expected /\ input.shape[1] = 0) =>
                /\ r.raised
                /\ r.exc = StackError

\* read_img has returned a volume for a buffer of d*h*w bytes, d*h*w > 1
C9_Witness ==
    /\ Returned /\ input.io_ok
    /\ ~result[1].raised
    /\ input.bytes.size = MaxDim * MaxDim * MaxDim
    /\ input.shape = <<MaxDim, MaxDim, MaxDim>>

\* the file steps of this run's plan: the files main hands to process_one
FileSteps == {k \in 1..Len(plan) : plan[k].kind = "file"}
NumFiles == Cardinality(FileSteps)
Ended == pc \in {"done", "crashed"}
Calls == 1..Len(calls)
Complete == {"vol", "spacing", "meta"}

\* C1 as stated: a run that repeats the run before with the same inputs
\* and overwrite=false reports SKIP for every file and changes no artifact
\* (stated here for real runs that met no failure of a system call).
C1_SecondRunAllSkip ==
    (same /\ ~args.overwrite /\ ~args.dry_run /\ faults = 0) =>
        \A k \in Calls : calls[k].status = "SKIP" /\ ~calls[k].changed

\* C1, amended: in a second run with the same command line and
\* overwrite=false, a file the first run reported OK or SKIP is reported
\* SKIP (unless a system call raises), is not read and leaves every artifact
\* as it was.  Every call of the second run that returns is decided by the
\* output directory as the call finds it: SKIP exactly when meta.json,
\* vol.npy and the spacing file are all there, otherwise DRYRUN under
\* dry_run, otherwise the file is read again and the call ends OK or ERR;
\* SKIP and DRYRUN read nothing and change nothing.
C1_SecondRunSkipsConverted ==
    (same /\ ~args.overwrite) =>
        \A k \in Calls :
            /\ (\E j \in 1..Len(prev) : /\ prev[j].path = calls[k].path
                                         /\ prev[j].status \in {"OK", "SKIP"})
               => /\ calls[k].status \in {"SKIP", "RAISED"}
                  /\ ~calls[k].read
                  /\ ~calls[k].changed
            /\ calls[k].status # "RAISED" =>
                  /\ calls[k].status = "SKIP" <=> calls[k].already_done
                  /\ calls[k].status = "DRYRUN" <=>
                        (~calls[k].already_done /\ args.dry_run)
                  /\ calls[k].status \in {"OK", "ERR"} <=>
                        (~calls[k].already_done /\ ~args.dry_run)
                  /\ calls[k].read <=> calls[k].status \in {"OK", "ERR"}
                  /\ calls[k].status \in {"SKIP", "DRYRUN"} => ~calls[k].changed

\* a second run has ended in which a file converted by the first run is
\* skipped and a file the first run failed on has been read again and has
\* failed again
C1_Witness ==
    /\ same /\ ~args.overwrite /\ pc = "done"
    /\ \E k \in Calls, j \in 1..Len(prev) :
          /\ prev[j].path = calls[k].path
          /\ prev[j].status = "OK"
          /\ calls[k].status = "SKIP"
    /\ \E k \in Calls, j \in 1..Len(prev) :
          /\ prev[j].path = calls[k].path
          /\ prev[j].status = "ERR"
          /\ calls[k].status = "ERR"
          /\ calls[k].read

\* C2 as stated: in one invocation no output directory is the target of
\* two calls of read_img.
C2_OneDecodePerDirectory ==
    faults = 0 =>
        \A j, k \in Calls :
            (j < k /\ calls[j].read /\ calls[k].read)
            => calls[j].out_dir # calls[k].out_dir

\* C2, what the code keeps: in one invocation read_img is called for a directory that
\* already holds meta.json, vol.npy and the spacing file only under
\* overwrite; after an OK into a directory no further call of read_img
\* targets it without overwrite; and two calls of read_img that target one
\* directory come from two distinct source paths.
C2_OneDecodePerSource ==
    /\ \A k \in Calls : calls[k].read => (args.overwrite \/ ~calls[k].already_done)
    /\ \A j, k \in Calls :
          (j < k /\ calls[j].out_dir = calls[k].out_dir)
          => /\ (calls[j].status = "OK" /\ ~args.overwrite) => ~calls[k].read
             /\ (calls[j].read /\ calls[k].read) => calls[j].path # calls[k].path

\* two source paths of one run map to one directory: the first was
\* converted, the second skipped
C2_Witness ==
    \E j, k \in Calls :
        /\ j < k
        /\ calls[j].out_dir = calls[k].out_dir
        /\ calls[j].path # calls[k].path
        /\ calls[j].status = "OK"
        /\ calls[k].status = "SKIP"

\* C3 as stated: with overwrite=true a file whose outputs exist is read and
\* reconverted, and neither SKIP nor DRYRUN is returned, whatever dry_run.
C3_OverwriteAlwaysReconverts ==
    faults = 0 =>
        \A k \in Calls :
            (args.overwrite /\ calls[k].already_done)
            => calls[k].status \notin {"SKIP", "DRYRUN"} /\ calls[k].read

\* C3, amended: with overwrite=true and dry_run=false a file whose outputs
\* exist is never SKIP or DRYRUN: read_img is called and the call ends OK
\* with vol.npy, the spacing file and meta.json rewritten, or in a failure;
\* with dry_run=true the call returns DRYRUN (unless a system call raises),
\* and nothing is read or changed.
C3_OverwriteReconvertsUnlessDryRun ==
    \A k \in Calls :
        (args.overwrite /\ calls[k].already_done)
        => IF args.dry_run
           THEN /\ calls[k].status \in {"DRYRUN", "RAISED"}
                /\ ~calls[k].read
                /\ ~calls[k].changed
           ELSE /\ calls[k].status \in {"OK", "ERR", "RAISED"}
                /\ calls[k].status \in {"OK", "ERR"} => calls[k].read
                /\ calls[k].status = "OK" => Complete \subseteq calls[k].writes

\* a file whose outputs existed has been reconverted under overwrite
C3_Witness ==
    \E k \in Calls :
        /\ args.overwrite /\ ~args.dry_run
        /\ calls[k].already_done
        /\ calls[k].status = "OK"
        /\ Complete \subseteq calls[k].writes

\* C4: a call that returns SKIP or DRYRUN has not called read_img and has
\* left every artifact file of every output directory as it was.
C4_SkipAndDryRunTouchNothing ==
    \A k \in Calls :
        calls[k].status \in {"SKIP", "DRYRUN"}
        => /\ ~calls[k].read
           /\ calls[k].writes = {}
           /\ ~calls[k].changed

\* a dry run over a tree that holds converted files: one file was skipped,
\* another reported DRYRUN
C4_Witness ==
    /\ \E d \in DOMAIN tree : Exists(tree[d].meta)
    /\ \E j, k \in Calls : calls[j].status = "SKIP" /\ calls[k].status = "DRYRUN"

\* C5: no failure while processing a file aborts the batch: a run ends by
\* returning from main, after every file of the plan was processed or the
\* cap was hit.
C5_NoFailureAbortsBatch ==
    Ended => /\ pc = "done"
             /\ Len(calls) = NumFiles \/ Capped(args.max, grand.total)

\* the failures of the read and of the decode
ReadOrDecodeFailure(e) ==
    \/ e.kind \in {"Size mismatch", StackError.kind}
    \/ e = IOFailure("fromfile")

\* C6: when the read or the decode fails, process_one writes the message
\* to error.txt, raises nothing and returns ERR with the path and the
\* message.
C6_DecodeFailureIsRecorded ==
    \A k \in Calls :
        (calls[k].tried # None /\ ReadOrDecodeFailure(calls[k].tried[1]))
        => /\ calls[k].status = "ERR"
           /\ calls[k].errfile = Whole(calls[k].tried[1])
           /\ calls[k].msg = [path |-> calls[k].path, detail |-> calls[k].tried]

IsOutcomeLine(line) == line.tag \in {"OK", "SKIP", "DRYRUN", "ERR"}
OutcomeLines == SelectSeq(out, IsOutcomeLine)
IsSummaryLine(line) == line.tag = "SUMMARY"
IsFilesLine(line) == line.tag = "FILES"
\* the files of the plan in the order main enumerates them
RECURSIVE FilesFrom(_)
FilesFrom(k) ==
    IF k > Len(plan) THEN <<>>
    ELSE (IF plan[k].kind = "file" THEN <<plan[k].path>> ELSE <<>>) \o FilesFrom(k + 1)

\* C7 as stated: a run with --max k >= 1 processes exactly k files.
C7_ExactlyCapFiles ==
    (pc = "done" /\ args.max >= 1 /\ faults = 0) =>
        Len(calls) = args.max /\ grand.total = args.max

\* C7, amended: a run with --max k >= 1 never processes more than k files,
\* counted in one total across all sites and patients whatever their
\* outcome: the files processed are the first ones of the enumeration, a
\* run that returns has processed min(k, N) of its N candidate files, and a
\* run that reaches k stops right after the k-th file's outcome line, with
\* the cap notice and the tally and without that patient's summary; with
\* N < k the run prints no cap notice, a summary for every patient it
\* announced, and the tally.
C7_AtMostCapFiles ==
    args.max >= 1 =>
        /\ Len(calls) <= args.max
        /\ grand.total = Len(calls)
        /\ \A k \in Calls : calls[k].path = FilesFrom(1)[k]
        /\ pc = "loop" => Len(calls) < args.max
        /\ pc = "done" =>
              /\ Len(calls) = Min(args.max, NumFiles)
              /\ out[Len(out)] = Line("DONE", <<grand.ok, grand.skip, grand.err,
                                                grand.total>>)
              /\ IF NumFiles >= args.max
                 THEN /\ Len(out) >= 3
                      /\ out[Len(out) - 1] = Line("INFO", <<args.max>>)
                      /\ out[Len(out) - 2] = Line(calls[args.max].status,
                                                  calls[args.max].msg)
                      /\ Len(SelectSeq(out, IsSummaryLine))
                            = Len(SelectSeq(out, IsFilesLine)) - 1
                 ELSE /\ \A n \in 1..Len(out) : out[n].tag # "INFO"
                      /\ Len(SelectSeq(out, IsSummaryLine))
                            = Len(SelectSeq(out, IsFilesLine))

\* a run with --max 2 over three files has returned: it processed the file
\* of site 1 and the first file of site 2, the total having carried over
\* the site boundary, and left the second file of site 2
C7_Witness ==
    /\ pc = "done" /\ args.max = 2 /\ Len(calls) = 2 /\ NumFiles = 3
    /\ \E j, k, l \in FileSteps :
          /\ j < k /\ k < l
          /\ plan[j].path = calls[1].path
          /\ plan[k].path = calls[2].path
          /\ plan[j].site # plan[k].site
          /\ plan[l].patient = plan[k].patient
          /\ plan[l].site = plan[k].site

\* C8: a run that has ended has printed the final tally as its last line
\* and one outcome line per file handed to process_one, in the order of
\* enumeration.
C8_TallyAndOneLinePerFile ==
    Ended =>
        /\ out # <<>> /\ out[Len(out)].tag = "DONE"
        /\ Len(OutcomeLines) = Len(calls)
        /\ \A k \in Calls :
              /\ OutcomeLines[k].tag = calls[k].status
              /\ OutcomeLines[k].data.path = calls[k].path
              /\ calls[k].path = FilesFrom(1)[k]

\* C10: the shape process_one decodes with is the forced shape when one
\* is given, else the first triple of the registry whose product is the
\* file size, else (200,1024,200); a file of 200*1024*200 bytes without a
\* forced shape gets (200,1024,200).
C10_ShapeResolution ==
    \A k \in Calls :
        calls[k].shape # None =>
            LET n == files[calls[k].path].size
                shape == calls[k].shape
                matches == {i \in 1..Len(known) :
                              known[i][1] * known[i][2] * known[i][3] = n}
            IN /\ Len(shape) = 3
               /\ args.force_shape # None => shape = args.force_shape
               /\ (args.force_shape = None /\ matches # {})
                    => \E i \in matches : /\ shape = known[i]
                                           /\ \A m \in matches : i <= m
               /\ (args.force_shape = None /\ matches = {})
                    => shape = <<200, 1024, 200>>
               /\ (args.force_shape = None /\ n = 200 * 1024 * 200)
                    => shape = <<200, 1024, 200>>

\* a file of the registry's size was decoded with a forced shape
C10_Witness ==
    \E k \in Calls :
        /\ args.force_shape = <<1, 2, 2>>
        /\ files[calls[k].path].size = 200 * 1024 * 200
        /\ calls[k].shape = <<1, 2, 2>>
        /\ calls[k].read

\* C11: after any sequence of runs, an output directory whose latest real
\* conversion attempt returned OK holds no error.txt (stated for runs in
\* which no system call failed).
C11_NoErrorFileAfterOK ==
    faults = 0 =>
        \A d \in DOMAIN lastDir :
            lastDir[d] = "OK" => ~Exists(FilesOf(tree, d).err)

\* C12: the volume read_img returns for a buffer of d*h*w bytes has d
\* frames in source order, and its sample (i, r, c) is the source byte at
\* offset i*h*w + (h-1-r)*w + (w-1-c): each frame is the row-major (h, w)
\* reshape of its slice with rows and columns both reversed (checked on
\* the shapes up to MaxDim in each dimension).
C12_FrameTransform ==
    (Returned /\ ~result[1].raised /\ \A k \in 1..3 : input.shape[k] <= MaxDim) =>
        LET decoded == VolArray(result[1].vol)
            d == input.shape[1]
            h == input.shape[2]
            w == input.shape[3]
        IN /\ result[1].vol.base = input.bytes
           /\ result[1].vol.shape = input.shape
           /\ Len(decoded) = d
           /\ \A i \in 0..(d - 1) :
                 /\ Len(decoded[i + 1]) = h
                 /\ \A r \in 0..(h - 1) :
                       /\ Len(decoded[i + 1][r + 1]) = w
                       /\ \A c \in 0..(w - 1) :
                             decoded[i + 1][r + 1][c + 1]
                               = BufAt(input.bytes, i * h * w + (h - 1 - r) * w + (w - 1 - c))

\* read_img has decoded a buffer of distinct bytes with more than one
\* frame, row and column: the first sample of the volume is the last byte
\* of the first frame's slice
C12_Witness ==
    /\ Returned /\ ~result[1].raised
    /\ input.shape = <<MaxDim, MaxDim, MaxDim>>
    /\ input.bytes = Counting(MaxDim * MaxDim * MaxDim)
    /\ VolArray(result[1].vol)[1][1][1] = MaxDim * MaxDim
    /\ VolArray(result[1].vol)[1][MaxDim][MaxDim] = 1

\* the output path mapper has been called on its own
Mapped == fn = "out_dir" /\ result # <<>>

\* C13: for a source path with a part named "images", the output directory
\* is out_root followed by exactly the parts after the first such part, in
\* order, the last of them (the file name) replaced by its sanitized form;
\* for a source path without that part, it is out_root followed by the
\* sanitized file name alone.  (A path that ends in the marker, or has no
\* file name, leaves nothing to append: the directory is out_root.)
C13_OutputPathMapping ==
    Mapped =>
        LET p == input.img_path
            root == input.out_root
            o == result[1]
            marks == {i \in 1..Len(p) : p[i] = IMAGES}
            n == Len(root)
        IN IF marks # {}
           THEN LET idx == CHOOSE i \in marks : \A j \in marks : i <= j
                    after == Len(p) - idx
                IN /\ Len(o) = n + after
                   /\ SubSeq(o, 1, n) = root
                   /\ \A k \in 1..(after - 1) : o[n + k] = p[idx + k]
                   /\ after >= 1 => o[n + after] = safe_leaf_foldername(p[Len(p)])
           ELSE IF p = <<>> \/ p = <<Root>>
           THEN o = root
           ELSE o = root \o <<safe_leaf_foldername(p[Len(p)])>>

\* the mapper was given a path with two "images" parts and a file name
\* that needs sanitizing: the directory keeps the second marker and ends in
\* the sanitized name
C13_Witness ==
    /\ Mapped
    /\ input.img_path = <<Root, IMAGES, IMAGES, <<"a", " ", "#", "a", ".", "i", "m", "g">> >>
    /\ result[1] = input.out_root \o <<IMAGES, <<"a", "_", "a", ".", "i", "m", "g">> >>

\* C14: every call of process_one returns exactly one of SKIP, DRYRUN, OK
\* and ERR: SKIP iff already_done and not overwrite; DRYRUN iff dry_run and
\* not skipped; OK iff neither and the read, the decode and every artifact
\* write succeed; ERR iff neither and one of them fails.
C14_DecisionTable ==
    \A k \in Calls :
        LET c == calls[k]
            skip == c.already_done /\ ~args.overwrite
            dry == args.dry_run /\ ~skip
        IN /\ c.status \in {"SKIP", "DRYRUN", "OK", "ERR"}
           /\ c.status = "SKIP" <=> skip
           /\ c.status = "DRYRUN" <=> dry
           /\ c.status = "OK" <=> (~skip /\ ~dry /\ c.tried = None)
           /\ c.status = "ERR" <=> (~skip /\ ~dry /\ c.tried # None)

\* C14, what the code keeps: the table holds for every call that returns;
\* a call in which stat, mkdir or the write of error.txt fails returns
\* nothing and raises instead.
C14_TableOfReturningCalls ==
    \A k \in Calls :
        LET c == calls[k]
            skip == c.already_done /\ ~args.overwrite
            dry == args.dry_run /\ ~skip
        IN c.status # "RAISED" =>
            /\ c.status \in {"SKIP", "DRYRUN", "OK", "ERR"}
            /\ c.status = "SKIP" <=> skip
            /\ c.status = "DRYRUN" <=> dry
            /\ c.status = "OK" <=> (~skip /\ ~dry /\ c.tried = None)
            /\ c.status = "ERR" <=> (~skip /\ ~dry /\ c.tried # None)

\* C15: after any sequence of runs, a file whose latest real conversion
\* attempt returned ERR is not reported SKIP by a run with overwrite=false:
\* it is read again, or reported DRYRUN.
C15_FailedFileIsRetried ==
    \A k \in Calls :
        (~args.overwrite /\ calls[k].last = <<"ERR">>)
        => /\ calls[k].status # "SKIP"
           /\ calls[k].status \in {"OK", "ERR"} => calls[k].read

\* C16: starting from an empty output tree, after any sequence of runs
\* (runs ending in ERR part-way through the artifact writes and overwrite
\* runs included), every output directory that contains meta.json also
\* contains vol.npy and the spacing file.
C16_MetaImpliesVolAndSpacing ==
    \A d \in DOMAIN tree :
        Exists(tree[d].meta) => (Exists(tree[d].vol) /\ Exists(tree[d].spacing))

\* an overwrite run has failed after rewriting vol.npy in a directory that
\* was complete: meta.json, vol.npy and the spacing file are all there
C16_Witness ==
    \E k \in Calls :
        /\ calls[k].already_done
        /\ calls[k].status = "ERR"
        /\ "vol" \in calls[k].writes
        /\ "meta" \notin calls[k].writes
        /\ Exists(FilesOf(tree, calls[k].out_dir).meta)
        /\ Exists(FilesOf(tree, calls[k].out_dir).vol)
        /\ Exists(FilesOf(tree, calls[k].out_dir).spacing)

\* the calls of this run made without a forced shape on a file that is not
\* of 200*1024*200 bytes, and neither skipped nor dry runs
OtherSizeCalls ==
    {k \in Calls : /\ args.force_shape = None
                   /\ files[calls[k].path].size # 200 * 1024 * 200
                   /\ calls[k].status \notin {"SKIP", "DRYRUN"}}

\* C17 as stated: without a forced shape process_one returns OK only for
\* a file of 200*1024*200 bytes, and for any other byte count a call that
\* is neither skipped nor a dry run returns ERR with a size-mismatch error
\* record (stated here for the calls that return).
C17_OtherSizesGiveSizeMismatch ==
    /\ \A k \in Calls :
          (args.force_shape = None /\ calls[k].status = "OK")
          => files[calls[k].path].size = 200 * 1024 * 200
    /\ \A k \in OtherSizeCalls :
          calls[k].status # "RAISED"
          => /\ calls[k].status = "ERR"
             /\ calls[k].tried # None
             /\ calls[k].tried[1].kind = "Size mismatch"
             /\ calls[k].errfile = Whole(calls[k].tried[1])

\* C17, amended: without a forced shape process_one returns OK only for a
\* file of 200*1024*200 bytes.  For any other byte count a call that is
\* neither skipped nor a dry run never converts: once the bytes are read,
\* read_img raises the size mismatch against (200,1024,200); when the file
\* cannot be read the failure is the read's.  process_one writes that
\* failure to error.txt and returns ERR with it, unless stat, mkdir or the
\* write of error.txt fails, in which case it raises.
C17_OtherSizesNeverConvert ==
    /\ \A k \in Calls :
          (args.force_shape = None /\ calls[k].status = "OK")
          => files[calls[k].path].size = 200 * 1024 * 200
    /\ \A k \in OtherSizeCalls :
          LET c == calls[k]
          IN /\ c.status \in {"ERR", "RAISED"}
             /\ c.writes \subseteq {"err"}
             /\ c.read =>
                  /\ c.tried # None
                  /\ \/ c.tried[1] = SizeMismatch(c.path, files[c.path].size,
                                                  200 * 1024 * 200, <<200, 1024, 200>>)
                     \/ c.tried[1] = IOFailure("fromfile")
             /\ c.status = "ERR" =>
                  /\ c.read
                  /\ c.errfile = Whole(c.tried[1])
                  /\ c.msg = [path |-> c.path, detail |-> c.tried]
             /\ c.status = "RAISED" => c.writes = {}

\* a file of 4 bytes was processed without a forced shape: ERR, with the
\* size mismatch against (200,1024,200) in error.txt
C17_Witness ==
    \E k \in OtherSizeCalls :
        /\ files[calls[k].path].size = 4
        /\ calls[k].status = "ERR"
        /\ calls[k].shape = <<200, 1024, 200>>
        /\ calls[k].errfile = Whole(SizeMismatch(calls[k].path, 4, 200 * 1024 * 200,
                                                 <<200, 1024, 200>>))

\* the DRYRUN outcomes of this run so far
NumDryRun == Cardinality({k \in Calls : calls[k].status = "DRYRUN"})

\* the final tally line of a run that has printed it
Tally == out[Len(out)].data

\* C18: at every point of a run, once a file's outcome is counted, TOTAL is
\* the number of calls of process_one made so far and equals
\* OK + SKIP + ERR + the number of DRYRUN outcomes; so the final tally line
\* has OK + SKIP + ERR = TOTAL exactly when no file returned DRYRUN.
C18_TallyAccounting ==
    /\ pc \in {"loop", "done"} =>
          /\ grand.total = Len(calls)
          /\ grand.total = grand.ok + grand.skip + grand.err + NumDryRun
          /\ grand.ok = Cardinality({k \in Calls : calls[k].status = "OK"})
          /\ grand.skip = Cardinality({k \in Calls : calls[k].status = "SKIP"})
          /\ grand.err = Cardinality({k \in Calls : calls[k].status = "ERR"})
    /\ pc = "done" =>
          /\ out # <<>> /\ out[Len(out)].tag = "DONE"
          /\ Tally = <<grand.ok, grand.skip, grand.err, grand.total>>
          /\ (Tally[1] + Tally[2] + Tally[3] = Tally[4]) <=> (NumDryRun = 0)

\* a dry run over two files has ended: one was skipped, one reported
\* DRYRUN, and the tally line reads OK=0 SKIP=1 ERR=0 TOTAL=2
C18_Witness ==
    /\ pc = "done"
    /\ Len(calls) = 2
    /\ NumDryRun = 1
    /\ out # <<>> /\ out[Len(out)].tag = "DONE"
    /\ Tally = <<0, 1, 0, 2>>

====
